---- MODULE Spec2Model ----
(***************************************************************************)
(* State-machine model of the ddeb-retriever charm (src/src/charm.py).      *)
(*                                                                         *)
(* The charm is a single-threaded reconciler: the framework dispatches one *)
(* event at a time to a handler, the handler runs to completion (or is     *)
(* aborted by an uncaught exception).  The host (packages, git checkout,   *)
(* system user, archive directory, unit files, apache configuration) is    *)
(* the state; each step of apply is one action.                            *)
(*                                                                         *)
(* Strings are TLA+ strings.  Where the code parses a string by its "/"    *)
(* separated components (the output of git describe), the string is held   *)
(* as the sequence of its components and joined back with "/".             *)
(*                                                                         *)
(* External commands that can fail in the model: the apt calls (caught by  *)
(* do_deps), every git command, adduser and a2enconf.  A generated file is *)
(* its content; the group www-data exists.                                 *)
(***************************************************************************)
EXTENDS Integers, Sequences, FiniteSets, TLC

VARIABLES
    config,        \* self.config: the desired-state map (a function on the keys present)
    status,        \* self.unit.status
    ports,         \* the ports opened by self.unit.set_ports
    pc,            \* position of the running handler ("idle": none running)
    handler,       \* the handler of the current or last run
    outcome,       \* how the current or last run ended
    ops,           \* the operations issued by the last step executed, in order
    failed,        \* the commands that failed in the last step executed, in order
    pkgs,          \* whether the apt packages are installed
    user,          \* whether the system user ddeb exists
    dir,           \* the archive directory /srv/ddebs
    timerFile,     \* content of /etc/systemd/system/ddeb-retriever.timer
    serviceFile,   \* content of /etc/systemd/system/ddeb-retriever.service
    timerUnit,     \* systemd's view of ddeb-retriever.timer
    a2conf,        \* content of /etc/apache2/conf-available/ddebs.conf
    a2enabled,     \* whether /etc/apache2/conf-enabled/ddebs.conf exists
    repo,          \* the git working tree at /opt/ddeb-retriever
    upstream,      \* generation of the branches published by each remote
    runs,          \* the number of events dispatched so far
    action,        \* the action event dispatched last ("none": a hook event)
    params,        \* event.params of that action event
    git_args       \* the arguments of a direct call of the helper _git

vars == <<config, status, ports, pc, handler, outcome, ops, failed, pkgs, user,
          dir, timerFile, serviceFile, timerUnit, a2conf, a2enabled, repo, upstream,
          runs, action, params, git_args>>

host == <<ports, pkgs, user, dir, timerFile, serviceFile, timerUnit, a2conf,
          a2enabled, repo>>

(***************************************************************************)
(* Bounds of the model.                                                    *)
(***************************************************************************)
MaxPush == 1         \* the remotes publish new commits at most MaxPush times in all
MaxRuns == 2         \* the framework dispatches at most MaxRuns events
MaxArgs == 3         \* the args parameter of the run action has at most MaxArgs characters
MaxGitArgs == 3      \* a direct call of the helper _git passes at most MaxGitArgs arguments

(***************************************************************************)
(* Program constants.                                                      *)
(***************************************************************************)
DEST_INSTALL == "/opt/ddeb-retriever"
DEST_ARCHIVE == "/srv/ddebs"
CONF_GPG_KEY == "gpg-key"
CONF_SCHEDULE == "schedule"
CONF_REF == "git-ref"
CONF_REMOTE == "git-repository"
USER_DDEB == "ddeb"
USER_WWW == "www-data"
RUN_COMMAND == <<DEST_INSTALL \o "/ddeb-retriever", "-r", DEST_ARCHIVE>>
TIMER_PATH == "/etc/systemd/system/ddeb-retriever.timer"
SERVICE_PATH == "/etc/systemd/system/ddeb-retriever.service"
TIMER_UNIT == "ddeb-retriever.timer"
A2CONF_PATH == "/etc/apache2/conf-available/ddebs.conf"
A2ENABLED_PATH == "/etc/apache2/conf-enabled/ddebs.conf"
HTTP_PORT == 80
PERM_BITS == 511     \* 0o777
MODE_0755 == 493     \* 0o755

(***************************************************************************)
(* Input domains.                                                          *)
(***************************************************************************)
Remotes == {"https://a/ddeb.git", "https://b/ddeb.git"}
Branches == {"main", "dev"}
DefaultBranch == "main"
Schedules == {"daily", "hourly"}
Gens == 0 .. MaxPush
Required == {CONF_GPG_KEY, CONF_SCHEDULE, CONF_REF, CONF_REMOTE}

ValuesOf(k) ==
    CASE k = CONF_GPG_KEY -> {"KEY"}
      [] k = CONF_SCHEDULE -> Schedules
      [] k = CONF_REF -> Branches
      [] k = CONF_REMOTE -> Remotes

\* every map from the keys K to values
MapsOn(K) ==
    { c \in [K -> UNION {ValuesOf(k) : k \in K}] : \A k \in K : c[k] \in ValuesOf(k) }

\* every map from a subset of the four keys to values
AllConfigs == UNION { MapsOn(K) : K \in SUBSET Required }

\* every map with all four keys
ValidConfigs == MapsOn(Required)

\* the maps a configuration change installs: the valid ones, and one of them
\* with one key, or every key, unset
DefaultConfig == CHOOSE c \in ValidConfigs : TRUE
Configs ==
    ValidConfigs
    \cup { [k \in Required \ {m} |-> DefaultConfig[k]] : m \in Required }
    \cup { [k \in {} |-> ""] }

\* modes a directory can be found with: 0o755, 0o700, 0o1755 (sticky), 0o777
Modes == {MODE_0755, 448, 1005, PERM_BITS}
\* modes mkdir() can produce: 0o777 & ~umask, for umask 0o022 and 0o077
MkdirModes == {MODE_0755, 448}
Owners == {"root", USER_DDEB}
Groups == {"root", USER_WWW}

NoFile == <<>>
NoCmd == <<>>

\* the characters of an args parameter: a string is held as the sequence of
\* its characters where the code splits it
SPACE == " "
TAB == "\t"
NEWLINE == "\n"
Chars == {"v", SPACE, TAB, NEWLINE}
RECURSIVE StringsUpTo(_)
StringsUpTo(n) ==
    IF n = 0 THEN {<<>>}
    ELSE LET S == StringsUpTo(n - 1) IN
         S \cup { Append(t, c) : t \in {u \in S : Len(u) = n - 1}, c \in Chars }
\* event.params of a run action: args is optional
RunParams == {[k \in {} |-> <<>>]} \cup { [args |-> a] : a \in StringsUpTo(MaxArgs) }

(***************************************************************************)
(* Status values: ops.model.ActiveStatus / BlockedStatus / MaintenanceStatus*)
(***************************************************************************)
ActiveStatus == [name |-> "Active", missing |-> {}]
MaintenanceStatus == [name |-> "Maintenance", missing |-> {}]
\* BlockedStatus(f"Needs: {', '.join(missing)}")
BlockedStatus(missing) == [name |-> "Blocked", missing |-> missing]

(***************************************************************************)
(* String helpers.                                                         *)
(***************************************************************************)
RECURSIVE Join(_)
\* "/".join(parts)
Join(parts) ==
    IF parts = <<>> THEN ""
    ELSE IF Len(parts) = 1 THEN parts[1]
    ELSE parts[1] \o "/" \o Join(Tail(parts))

\* str.removeprefix(p) for a prefix p that ends with "/": s (held as its "/"
\* components) starts with p iff its leading components are those of p and
\* another component follows.
RemovePrefix(s, p) ==
    IF Len(s) > Len(p) /\ SubSeq(s, 1, Len(p)) = p
    THEN SubSeq(s, Len(p) + 1, Len(s))
    ELSE s

\* Output of a subprocess: the text (as components) and its trailing newline.
Output(parts) == [parts |-> parts, nl |-> TRUE]
\* str.strip()
Strip(out) == Join(out.parts)

(***************************************************************************)
(* The git working tree and the commands the charm runs on it.             *)
(*                                                                         *)
(* A commit is named by the branch it is the tip of and the generation of  *)
(* that branch: <<branch, gen>>.  Remotes are mirrors of one project,      *)
(* each at its own generation.  The working tree holds: the origin URL,    *)
(* the generation of the remote-tracking refs refs/remotes/origin/*        *)
(* (updated together by fetch), the generation of the local branch         *)
(* refs/heads/<default> made by clone, and HEAD (attached to the local     *)
(* branch, or detached at a commit).                                       *)
(***************************************************************************)
NoRepo ==
    [exists |-> FALSE, url |-> "", track |-> 0, lmain |-> 0,
     head |-> [att |-> TRUE, b |-> DefaultBranch, g |-> 0]]

\* git clone <url> <dir>: origin is url, every branch of url is tracked,
\* the default branch is created locally and checked out
GitClone(url, up) ==
    [exists |-> TRUE, url |-> url, track |-> up[url], lmain |-> up[url],
     head |-> [att |-> TRUE, b |-> DefaultBranch, g |-> up[url]]]

\* git remote set-url origin <url>
GitSetUrl(r, url) == [r EXCEPT !.url = url]

\* git fetch origin: the remote-tracking refs move to the remote's tips
GitFetch(r, up) == [r EXCEPT !.track = up[r.url]]

\* git checkout origin/<branch>: HEAD is detached at the remote-tracking tip
GitCheckout(r, branch) ==
    [r EXCEPT !.head = [att |-> FALSE, b |-> branch, g |-> r.track]]

\* the commit HEAD is at
HeadCommit(r) == <<r.head.b, r.head.g>>

\* git rev-parse HEAD: the full commit identifier
Sha(c) == "sha-" \o c[1] \o "-" \o ToString(c[2])
GitRevParse(r) == Output(<<Sha(HeadCommit(r))>>)

\* faulty variant: --always prevails over --exact-match, and a commit without
\* a ref is described by its abbreviated identifier
GitDescribe_always(r) ==
    LET c == HeadCommit(r) IN
    IF c = <<DefaultBranch, r.lmain>>
    THEN [ok |-> TRUE, out |-> Output(<<"heads", DefaultBranch>>)]
    ELSE IF c = <<DefaultBranch, r.track>>
    THEN [ok |-> TRUE, out |-> Output(<<"remotes", "origin", "HEAD">>)]
    ELSE IF c = <<r.head.b, r.track>>
    THEN [ok |-> TRUE, out |-> Output(<<"remotes", "origin", r.head.b>>)]
    ELSE [ok |-> TRUE, out |-> Output(<<"sha-" \o c[1]>>)]

\* git describe --all --exact-match --always HEAD: the first ref, in the order
\* refs/heads/*, refs/remotes/origin/HEAD, refs/remotes/origin/<branch>, that
\* points at HEAD's commit, printed without "refs/"; with --exact-match the
\* command fails when no ref points at the commit.
GitDescribe(r) ==
    LET c == HeadCommit(r) IN
    IF c = <<DefaultBranch, r.lmain>>
    THEN [ok |-> TRUE, out |-> Output(<<"heads", DefaultBranch>>)]
    ELSE IF c = <<DefaultBranch, r.track>>
    THEN [ok |-> TRUE, out |-> Output(<<"remotes", "origin", "HEAD">>)]
    ELSE IF c = <<r.head.b, r.track>>
    THEN [ok |-> TRUE, out |-> Output(<<"remotes", "origin", r.head.b>>)]
    ELSE [ok |-> FALSE, out |-> Output(<<>>)]

\* faulty variant: clone is scoped to the install directory like the rest
_git_always_scoped(args) == <<"git", "-C", DEST_INSTALL>> \o args

\* _git(*args): the command line run for the arguments
_git(args) ==
    IF args # <<>> /\ args[1] = "clone"
    THEN <<"git">> \o args
    ELSE <<"git", "-C", DEST_INSTALL>> \o args

(***************************************************************************)
(* Running a sequence of commands, the k-th of which fails (k = 0, or k    *)
(* beyond the commands issued: none fails).  A run state holds the working *)
(* tree, the commands issued so far, the command whose failure left the    *)
(* step (err) and the commands whose failure was caught.                   *)
(***************************************************************************)
RunState(r) == [repo |-> r, log |-> <<>>, err |-> NoCmd, caught |-> <<>>]

\* the commands that failed in a run state, in order
Failures(s) == s.caught \o (IF s.err # NoCmd THEN <<s.err>> ELSE <<>>)

\* issue argv; unless it is the failing command, its effect is newRepo
Exec(s, argv, k, newRepo) ==
    IF s.err # NoCmd THEN s
    ELSE LET log2 == Append(s.log, argv) IN
         IF Len(log2) = k
         THEN [s EXCEPT !.log = log2, !.err = argv]
         ELSE [s EXCEPT !.repo = newRepo, !.log = log2]

\* the prefixes _git_current_ref strips from the description
REMOTE_PREFIX == <<"remote", "origin">>
HEADS_PREFIX == <<"heads">>

\* _git_current_ref(): the run state after the commands, and the ref returned
_git_current_ref(s, k) ==
    IF s.err # NoCmd THEN [s |-> s, ref |-> ""]
    ELSE
    LET argv == _git(<<"describe", "--all", "--exact-match", "--always", "HEAD">>)
        s1   == [s EXCEPT !.log = Append(s.log, argv)]
        d    == GitDescribe(s.repo)
    IN  IF d.ok /\ Len(s1.log) # k
        THEN [s |-> s1,
              ref |-> Join(RemovePrefix(RemovePrefix(d.out.parts, REMOTE_PREFIX),
                                        HEADS_PREFIX))]
        ELSE \* CalledProcessError: fall back to the raw commit identifier
             [s |-> Exec([s1 EXCEPT !.caught = Append(@, argv)],
                         _git(<<"rev-parse", "HEAD">>), k, s.repo),
              ref |-> Strip(GitRevParse(s.repo))]

\* faulty variant: the origin is repointed and the current ref is resolved
\* before anything is fetched from the new origin
GitSync_fetch_late(r, cfg, up, k) ==
    LET conf_ref    == cfg[CONF_REF]
        conf_remote == cfg[CONF_REMOTE]
        s0 == RunState(r)
        s1 == IF ~r.exists
              THEN Exec(s0, _git(<<"clone", conf_remote, DEST_INSTALL>>), k,
                        GitClone(conf_remote, up))
              ELSE s0
        s2 == Exec(s1, _git(<<"remote", "get-url", "origin">>), k, s1.repo)
        current_remote == Strip(Output(<<s2.repo.url>>))
        s3 == IF s2.err = NoCmd /\ conf_remote # current_remote
              THEN Exec(s2, _git(<<"remote", "set-url", "origin", conf_remote>>), k,
                        GitSetUrl(s2.repo, conf_remote))
              ELSE s2
        cur == _git_current_ref(s3, k)
        s4 == cur.s
        s5 == IF s2.err = NoCmd /\ conf_remote # current_remote
              THEN Exec(s4, _git(<<"fetch", "origin">>), k, GitFetch(s4.repo, up))
              ELSE s4
    IN  IF s5.err = NoCmd /\ conf_ref # cur.ref
        THEN Exec(s5, _git(<<"checkout", "origin/" \o conf_ref>>), k,
                  GitCheckout(s5.repo, conf_ref))
        ELSE s5

\* do_git(): the commands of the checkout step on working tree r, with the
\* desired remote and ref of cfg and the remotes as they are (up)
GitSync(r, cfg, up, k) ==
    LET conf_ref    == cfg[CONF_REF]
        conf_remote == cfg[CONF_REMOTE]
        s0 == RunState(r)
        s1 == IF ~r.exists
              THEN Exec(s0, _git(<<"clone", conf_remote, DEST_INSTALL>>), k,
                        GitClone(conf_remote, up))
              ELSE s0
        s2 == Exec(s1, _git(<<"remote", "get-url", "origin">>), k, s1.repo)
        current_remote == Strip(Output(<<s2.repo.url>>))
        s3 == IF s2.err = NoCmd /\ conf_remote # current_remote
              THEN Exec(s2, _git(<<"remote", "set-url", "origin", conf_remote>>), k,
                        GitSetUrl(s2.repo, conf_remote))
              ELSE s2
        s4 == IF s2.err = NoCmd /\ conf_remote # current_remote
              THEN Exec(s3, _git(<<"fetch", "origin">>), k, GitFetch(s3.repo, up))
              ELSE s3
        cur == _git_current_ref(s4, k)
        s5 == cur.s
    IN  IF s5.err = NoCmd /\ conf_ref # cur.ref
        THEN Exec(s5, _git(<<"checkout", "origin/" \o conf_ref>>), k,
                  GitCheckout(s5.repo, conf_ref))
        ELSE s5

\* faulty variant: the update action checks the origin URL first, as do_git does
GitUpdate_get_url(r, cfg, up, k) ==
    LET conf_ref == cfg[CONF_REF]
        s0 == Exec(RunState(r), _git(<<"remote", "get-url", "origin">>), k, r)
        s1 == Exec(s0, _git(<<"fetch", "origin">>), k, GitFetch(r, up))
    IN  Exec(s1, _git(<<"checkout", "origin/" \o conf_ref>>), k,
             GitCheckout(s1.repo, conf_ref))

\* action_update(): fetch origin, checkout origin/<ref>
GitUpdate(r, cfg, up, k) ==
    LET conf_ref == cfg[CONF_REF]
        s1 == Exec(RunState(r), _git(<<"fetch", "origin">>), k, GitFetch(r, up))
    IN  Exec(s1, _git(<<"checkout", "origin/" \o conf_ref>>), k,
             GitCheckout(s1.repo, conf_ref))

(***************************************************************************)
(* The archive directory.                                                  *)
(***************************************************************************)
NoDir == [exists |-> FALSE, owner |-> "", group |-> "", mode |-> 0]
Dirs == {NoDir} \cup [exists : {TRUE}, owner : Owners, group : Groups, mode : Modes]

\* st_mode & 0o777
PermBits(mode) == mode % (PERM_BITS + 1)

\* faulty variant: chown only when both the owner and the group are wrong
EnsureDirectory_both_wrong(d, mkmode) ==
    LET made == ~d.exists
        d1 == IF made
              THEN [exists |-> TRUE, owner |-> "root", group |-> "root", mode |-> mkmode]
              ELSE d
        owned == d1.owner # USER_DDEB /\ d1.group # USER_WWW
        d2 == IF owned THEN [d1 EXCEPT !.owner = USER_DDEB, !.group = USER_WWW] ELSE d1
        moded == PermBits(d2.mode) # MODE_0755
        d3 == IF moded THEN [d2 EXCEPT !.mode = MODE_0755] ELSE d2
    IN  [dir |-> d3,
         log |-> (IF made THEN <<<<"mkdir", DEST_ARCHIVE>>>> ELSE <<>>)
              \o (IF owned THEN <<<<"chown", DEST_ARCHIVE, USER_DDEB, USER_WWW>>>> ELSE <<>>)
              \o (IF moded THEN <<<<"chmod", DEST_ARCHIVE, "0755">>>> ELSE <<>>)]

\* faulty variant: the three checks form one if / elif chain
EnsureDirectory_elif(d, mkmode) ==
    LET made == ~d.exists
        d1 == IF made
              THEN [exists |-> TRUE, owner |-> "root", group |-> "root", mode |-> mkmode]
              ELSE d
        owned == ~made /\ (d1.owner # USER_DDEB \/ d1.group # USER_WWW)
        d2 == IF owned THEN [d1 EXCEPT !.owner = USER_DDEB, !.group = USER_WWW] ELSE d1
        moded == ~made /\ ~owned /\ PermBits(d2.mode) # MODE_0755
        d3 == IF moded THEN [d2 EXCEPT !.mode = MODE_0755] ELSE d2
    IN  [dir |-> d3,
         log |-> (IF made THEN <<<<"mkdir", DEST_ARCHIVE>>>> ELSE <<>>)
              \o (IF owned THEN <<<<"chown", DEST_ARCHIVE, USER_DDEB, USER_WWW>>>> ELSE <<>>)
              \o (IF moded THEN <<<<"chmod", DEST_ARCHIVE, "0755">>>> ELSE <<>>)]

\* do_dirs(): the directory left by the step and the operations it issued;
\* mkmode is the mode a directory made by mkdir() gets from the umask
EnsureDirectory(d, mkmode) ==
    LET made == ~d.exists
        d1 == IF made
              THEN [exists |-> TRUE, owner |-> "root", group |-> "root", mode |-> mkmode]
              ELSE d
        owned == d1.owner # USER_DDEB \/ d1.group # USER_WWW
        d2 == IF owned THEN [d1 EXCEPT !.owner = USER_DDEB, !.group = USER_WWW] ELSE d1
        moded == PermBits(d2.mode) # MODE_0755
        d3 == IF moded THEN [d2 EXCEPT !.mode = MODE_0755] ELSE d2
    IN  [dir |-> d3,
         log |-> (IF made THEN <<<<"mkdir", DEST_ARCHIVE>>>> ELSE <<>>)
              \o (IF owned THEN <<<<"chown", DEST_ARCHIVE, USER_DDEB, USER_WWW>>>> ELSE <<>>)
              \o (IF moded THEN <<<<"chmod", DEST_ARCHIVE, "0755">>>> ELSE <<>>)]

(***************************************************************************)
(* Generated files.                                                        *)
(***************************************************************************)
\* os.environ["HTTP_PROXY"], ["HTTPS_PROXY"], ["NO_PROXY"] as set by __init__
HTTP_PROXY == ""
HTTPS_PROXY == ""
NO_PROXY == ""

\* the timer unit rendered from the desired state
TimerText(cfg) ==
    << "# Managed by ddeb charm.",
       "[Unit]",
       "Description=Trigger ddeb-retriever",
       "[Timer]",
       "OnCalendar=" \o cfg[CONF_SCHEDULE],
       "[Install]",
       "WantedBy=timers.target" >>

\* the service unit
ServiceText ==
    << "# Managed by ddeb charm.",
       "[Unit]",
       "Description=Trigger ddeb-retriever",
       "[Service]",
       "Restart=on-failure",
       "User=" \o USER_DDEB,
       "ExecStart=" \o RUN_COMMAND[1] \o " " \o RUN_COMMAND[2] \o " " \o RUN_COMMAND[3],
       "Environment=HTTP_PROXY=" \o HTTP_PROXY,
       "Environment=HTTPS_PROXY=" \o HTTPS_PROXY,
       "Environment=NO_PROXY=" \o NO_PROXY >>

\* the apache configuration
ConfText ==
    << "# Managed by ddeb charm.",
       "Alias / /srv/ddebs/",
       "<Directory />",
       "  Options Indexes MultiViews FollowSymLinks",
       "  Require all granted",
       "</Directory>" >>

\* pathops.ensure_contents(path, source): whether the file was rewritten, the
\* content it has afterwards and the write issued
ensure_contents(path, current, source) ==
    [changed |-> current # source,
     content |-> source,
     log |-> IF current # source THEN <<<<"write", path>>>> ELSE <<>>]

\* do_systemd(): the systemd calls that follow the two ensure_contents calls
SystemdCalls(changed) ==
    << <<"systemd.daemon_reload">>,
       <<"systemd.service_enable", TIMER_UNIT>>,
       <<"systemd.service_start", TIMER_UNIT>> >>

A2ENCONF == <<"a2enconf", "ddebs">>
APACHE_RELOAD == <<"systemd.service_reload", "apache2.service">>

\* faulty variant: only a rewritten file reloads apache
HttpdPlan_reload_on_write(content, enabled) ==
    LET w == ensure_contents(A2CONF_PATH, content, ConfText)
        enable == ~enabled
    IN  [write |-> w, enable |-> enable, reload |-> w.changed]

\* do_httpd(): what the step does for the content and marker it finds
HttpdPlan(content, enabled) ==
    LET w == ensure_contents(A2CONF_PATH, content, ConfText)
        enable == ~enabled
    IN  [write |-> w, enable |-> enable, reload |-> w.changed \/ enable]

(***************************************************************************)
(* Initial state: a host before the first event, with the managed paths    *)
(* in any state other agents may have left them in.                        *)
(***************************************************************************)
NoConfig == [k \in {} |-> ""]
\* event.params of an event that carries no parameter
NoParams == [k \in {} |-> <<>>]

Init ==
    /\ config = NoConfig
    /\ status = MaintenanceStatus
    /\ ports = {}
    /\ pc = "idle"
    /\ handler = "none"
    /\ outcome = "none"
    /\ ops = <<>>
    /\ failed = <<>>
    /\ pkgs = FALSE
    /\ user = FALSE
    /\ dir = NoDir
    /\ timerFile = NoFile
    /\ serviceFile = NoFile
    /\ timerUnit = [enabled |-> FALSE, active |-> FALSE]
    /\ a2conf = NoFile
    /\ a2enabled = FALSE
    /\ repo = NoRepo
    /\ upstream = [r \in Remotes |-> 0]
    /\ runs = 0
    /\ action = "none"
    /\ params = NoParams
    /\ git_args = <<>>

(***************************************************************************)
(* Event dispatch (__init__: framework.observe).                           *)
(***************************************************************************)
Begin(h, first) ==
    /\ pc = "idle"
    /\ runs < MaxRuns
    /\ runs' = runs + 1
    /\ pc' = first
    /\ handler' = h
    /\ outcome' = "running"
    /\ ops' = <<>>
    /\ failed' = <<>>

End(how) ==
    /\ pc' = "idle"
    /\ outcome' = how

\* an uncaught exception leaves the handler
Abort == End("aborted")

on_install ==
    /\ Begin("apply", "gate")
    /\ UNCHANGED <<config, status, host, upstream>>
    /\ action' = "none"
    /\ params' = NoParams
    /\ UNCHANGED git_args

on_config_changed ==
    /\ Begin("apply", "gate")
    /\ config' \in Configs
    /\ UNCHANGED <<status, host, upstream>>
    /\ action' = "none"
    /\ params' = NoParams
    /\ UNCHANGED git_args

on_start ==
    /\ Begin("apply", "gate")
    /\ UNCHANGED <<config, status, host, upstream>>
    /\ action' = "none"
    /\ params' = NoParams
    /\ UNCHANGED git_args

on_update_action ==
    /\ Begin("action_update", "update")
    /\ UNCHANGED <<config, status, host, upstream>>
    /\ action' = "update"
    /\ params' = NoParams
    /\ UNCHANGED git_args

(***************************************************************************)
(* apply and its steps.                                                    *)
(***************************************************************************)
\* config_is_valid(): the missing keys
MissingKeys(cfg) == Required \ DOMAIN cfg

\* faulty variant: the gate forgets the gpg key
config_is_valid_no_gpg(cfg) == {CONF_SCHEDULE, CONF_REF, CONF_REMOTE} \subseteq DOMAIN cfg

config_is_valid(cfg) == MissingKeys(cfg) = {}

\* faulty variant: the directory step runs before the user step
StepAfter_dirs_first(step) ==
    CASE step = "gate" -> "deps"
      [] step = "deps" -> "git"
      [] step = "git" -> "dirs"
      [] step = "dirs" -> "user"
      [] step = "user" -> "systemd"
      [] step = "systemd" -> "httpd"
      [] step = "httpd" -> "ports"
      [] step = "ports" -> "status"

\* faulty variant: the status is published right after the apache step
StepAfter_status_first(step) ==
    CASE step = "gate" -> "deps"
      [] step = "deps" -> "git"
      [] step = "git" -> "user"
      [] step = "user" -> "dirs"
      [] step = "dirs" -> "systemd"
      [] step = "systemd" -> "httpd"
      [] step = "httpd" -> "status"
      [] step = "ports" -> "status"

\* apply(): the step that follows each step of a run that goes on
StepAfter(step) ==
    CASE step = "gate" -> "deps"
      [] step = "deps" -> "git"
      [] step = "git" -> "user"
      [] step = "user" -> "dirs"
      [] step = "dirs" -> "systemd"
      [] step = "systemd" -> "httpd"
      [] step = "httpd" -> "ports"
      [] step = "ports" -> "status"

\* apply(): the gate
apply ==
    /\ pc = "gate"
    /\ IF config_is_valid(config)
       THEN /\ pc' = StepAfter("gate")
            /\ UNCHANGED <<status, outcome>>
       ELSE /\ status' = BlockedStatus(MissingKeys(config))
            /\ End("blocked")
    /\ UNCHANGED <<config, handler, ops, failed, host, upstream, runs, action, params, git_args>>

APT_UPDATE == <<"apt.update">>
APT_ADD == <<"apt.add_package", "git", "systemd", "python3-launchpadlib", "apache2">>

\* faulty variant: apt.Error is not caught
do_deps_uncaught ==
    /\ pc = "deps"
    /\ \E result \in {"ok", "update_error", "install_error"} :
          /\ ops' = (IF result = "update_error" THEN <<APT_UPDATE>>
                     ELSE <<APT_UPDATE, APT_ADD>>)
          /\ failed' = (IF result = "update_error" THEN <<APT_UPDATE>>
                        ELSE IF result = "install_error" THEN <<APT_ADD>>
                        ELSE <<>>)
          /\ pkgs' = IF result = "ok" THEN TRUE ELSE pkgs
          /\ IF result = "ok"
             THEN pc' = StepAfter("deps") /\ UNCHANGED outcome
             ELSE Abort
    /\ UNCHANGED <<config, status, handler, ports, user, dir,
                   timerFile, serviceFile, timerUnit, a2conf, a2enabled, repo, upstream, runs, action, params, git_args>>

\* do_deps(): apt.Error is caught and logged
do_deps ==
    /\ pc = "deps"
    /\ \E result \in {"ok", "update_error", "install_error"} :
          /\ ops' = (IF result = "update_error" THEN <<APT_UPDATE>>
                     ELSE <<APT_UPDATE, APT_ADD>>)
          /\ failed' = (IF result = "update_error" THEN <<APT_UPDATE>>
                        ELSE IF result = "install_error" THEN <<APT_ADD>>
                        ELSE <<>>)
          /\ pkgs' = IF result = "ok" THEN TRUE ELSE pkgs
    /\ pc' = StepAfter("deps")
    /\ UNCHANGED <<config, status, handler, outcome, ports, user, dir,
                   timerFile, serviceFile, timerUnit, a2conf, a2enabled, repo, upstream, runs, action, params, git_args>>

\* the most commands do_git issues
MaxGitCommands == 7

do_git ==
    /\ pc = "git"
    /\ \E k \in 0 .. MaxGitCommands :
          LET s == GitSync(repo, config, upstream, k) IN
          /\ repo' = s.repo
          /\ ops' = s.log
          /\ failed' = Failures(s)
          /\ IF s.err = NoCmd
             THEN pc' = StepAfter("git") /\ UNCHANGED outcome
             ELSE Abort
    /\ UNCHANGED <<config, status, handler, ports, pkgs, user, dir, timerFile,
                   serviceFile, timerUnit, a2conf, a2enabled, upstream, runs, action, params, git_args>>

\* str(getgrnam(group).gr_gid)
GidOf(group) == "gid(" \o group \o ")"

ADDUSER ==
    <<"adduser", "--system", "--gid", GidOf(USER_WWW), "--home", "/var/cache/ddeb", USER_DDEB>>

\* faulty variant: the exit status of adduser is not checked
do_user_unchecked ==
    /\ pc = "user"
    /\ IF user
       THEN /\ ops' = <<>>
            /\ failed' = <<>>
            /\ UNCHANGED user
       ELSE /\ ops' = <<ADDUSER>>
            /\ \/ user' = TRUE /\ failed' = <<>>
               \/ UNCHANGED user /\ failed' = <<ADDUSER>>
    /\ pc' = StepAfter("user")
    /\ UNCHANGED <<config, status, handler, outcome, ports, pkgs, dir, timerFile,
                   serviceFile, timerUnit, a2conf, a2enabled, repo, upstream, runs, action, params, git_args>>

do_user ==
    /\ pc = "user"
    /\ IF user
       THEN /\ pc' = StepAfter("user")
            /\ ops' = <<>>
            /\ failed' = <<>>
            /\ UNCHANGED <<user, outcome>>
       ELSE /\ ops' = <<ADDUSER>>
            /\ \/ /\ user' = TRUE
                  /\ failed' = <<>>
                  /\ pc' = StepAfter("user")
                  /\ UNCHANGED outcome
               \/ /\ UNCHANGED user
                  /\ failed' = <<ADDUSER>>
                  /\ Abort
    /\ UNCHANGED <<config, status, handler, ports, pkgs, dir, timerFile,
                   serviceFile, timerUnit, a2conf, a2enabled, repo, upstream, runs, action, params, git_args>>

do_dirs ==
    /\ pc = "dirs"
    /\ \E mkmode \in MkdirModes :
          LET r == EnsureDirectory(dir, mkmode) IN
          /\ dir' = r.dir
          /\ ops' = r.log
    /\ failed' = <<>>
    /\ pc' = StepAfter("dirs")
    /\ UNCHANGED <<config, status, handler, outcome, ports, pkgs, user,
                   timerFile, serviceFile, timerUnit, a2conf, a2enabled, repo, upstream, runs, action, params, git_args>>

do_systemd ==
    /\ pc = "systemd"
    /\ LET t == ensure_contents(TIMER_PATH, timerFile, TimerText(config))
           s == ensure_contents(SERVICE_PATH, serviceFile, ServiceText)
           changed == t.changed \/ s.changed
           calls == SystemdCalls(changed)
       IN  /\ timerFile' = t.content
           /\ serviceFile' = s.content
           /\ ops' = t.log \o s.log \o calls
           /\ timerUnit' = IF calls # <<>>
                           THEN [enabled |-> TRUE, active |-> TRUE]
                           ELSE timerUnit
    /\ failed' = <<>>
    /\ pc' = StepAfter("systemd")
    /\ UNCHANGED <<config, status, handler, outcome, ports, pkgs, user,
                   dir, a2conf, a2enabled, repo, upstream, runs, action, params, git_args>>

do_httpd ==
    /\ pc = "httpd"
    /\ LET p == HttpdPlan(a2conf, a2enabled) IN
       /\ a2conf' = p.write.content
       /\ \/ \* a2enconf, when run, succeeds
             /\ a2enabled' = TRUE
             /\ ops' = p.write.log
                       \o (IF p.enable THEN <<A2ENCONF>> ELSE <<>>)
                       \o (IF p.reload THEN <<APACHE_RELOAD>> ELSE <<>>)
             /\ failed' = <<>>
             /\ pc' = StepAfter("httpd")
             /\ UNCHANGED outcome
          \/ \* a2enconf exits non-zero
             /\ p.enable
             /\ UNCHANGED a2enabled
             /\ ops' = p.write.log \o <<A2ENCONF>>
             /\ failed' = <<A2ENCONF>>
             /\ Abort
    /\ UNCHANGED <<config, status, handler, ports, pkgs, user, dir, timerFile,
                   serviceFile, timerUnit, repo, upstream, runs, action, params, git_args>>

SET_PORTS == <<"set_ports", "80">>

\* apply(): self.unit.set_ports(80)
apply_set_ports ==
    /\ pc = "ports"
    /\ ports' = {HTTP_PORT}
    /\ ops' = <<SET_PORTS>>
    /\ failed' = <<>>
    /\ pc' = StepAfter("ports")
    /\ UNCHANGED <<config, status, handler, outcome, pkgs, user, dir,
                   timerFile, serviceFile, timerUnit, a2conf, a2enabled, repo, upstream, runs, action, params, git_args>>

\* apply(): self.unit.status = ActiveStatus()
apply_set_status ==
    /\ pc = "status"
    /\ status' = ActiveStatus
    /\ ops' = <<>>
    /\ End("done")
    /\ UNCHANGED <<config, handler, failed, host, upstream, runs, action, params, git_args>>

(***************************************************************************)
(* Actions.                                                                *)
(***************************************************************************)
KEY_ERROR == <<"KeyError", CONF_REF>>

\* action_update()
action_update ==
    /\ pc = "update"
    /\ IF CONF_REF \notin DOMAIN config
       THEN /\ Abort
            /\ ops' = <<>>
            /\ failed' = <<KEY_ERROR>>
            /\ UNCHANGED repo
       ELSE \E k \in (IF repo.exists THEN 0 .. 2 ELSE {1}) :
               LET s == GitUpdate(repo, config, upstream, k) IN
               /\ repo' = s.repo
               /\ ops' = s.log
               /\ failed' = Failures(s)
               /\ IF s.err = NoCmd THEN End("done") ELSE Abort
    /\ UNCHANGED <<config, status, handler, ports, pkgs, user, dir, timerFile,
                   serviceFile, timerUnit, a2conf, a2enabled, upstream, runs, action, params, git_args>>

\* framework.observe(...) in __init__: the handler that observes each event
\* and the position its run starts at
Observers ==
    [ev \in {"install", "config_changed", "start", "update_action", "run_action"} |->
        CASE ev \in {"install", "config_changed", "start"} ->
                 [handler |-> "apply", first |-> "gate"]
          [] ev = "update_action" -> [handler |-> "action_update", first |-> "update"]
          [] ev = "run_action" -> [handler |-> "action_run", first |-> "run"]]

\* the framework emits an event: the observing handler runs; an event that no
\* handler observes is dropped
Emit(ev) ==
    IF ev \in DOMAIN Observers
    THEN Begin(Observers[ev].handler, Observers[ev].first)
    ELSE /\ pc = "idle"
         /\ runs < MaxRuns
         /\ runs' = runs + 1
         /\ handler' = "none"
         /\ outcome' = "unobserved"
         /\ ops' = <<>>
         /\ failed' = <<>>
         /\ UNCHANGED pc

on_run_action ==
    /\ Emit("run_action")
    /\ action' = "run"
    /\ params' \in RunParams
    /\ UNCHANGED git_args
    /\ UNCHANGED <<config, status, host, upstream>>

on_pause_action ==
    /\ Emit("pause_action")
    /\ action' = "pause"
    /\ params' = NoParams
    /\ UNCHANGED git_args
    /\ UNCHANGED <<config, status, host, upstream>>

on_resume_action ==
    /\ Emit("resume_action")
    /\ action' = "resume"
    /\ params' = NoParams
    /\ UNCHANGED git_args
    /\ UNCHANGED <<config, status, host, upstream>>

\* dict.get(key, default)
Get(p, key, default) == IF key \in DOMAIN p THEN p[key] ELSE default

\* the first position of sep in s, 0 if there is none
Find(s, sep) ==
    IF \E i \in 1 .. Len(s) : s[i] = sep
    THEN CHOOSE i \in 1 .. Len(s) : s[i] = sep /\ \A j \in 1 .. i - 1 : s[j] # sep
    ELSE 0

RECURSIVE split(_, _)
\* str.split(sep) for a one-character sep: the pieces between the occurrences
\* of sep, empty pieces included
split(s, sep) ==
    LET i == Find(s, sep) IN
    IF i = 0 THEN <<s>>
    ELSE <<SubSeq(s, 1, i - 1)>> \o split(SubSeq(s, i + 1, Len(s)), sep)

RECURSIVE Str(_)
\* the string of a sequence of characters
Str(chars) == IF chars = <<>> THEN "" ELSE chars[1] \o Str(Tail(chars))

NonEmpty(value) == value # <<>>

\* action_run(): tuple(value for value in params.get("args", "").split(" ") if value)
RunArgs(p) ==
    LET pieces == SelectSeq(split(Get(p, "args", <<>>), SPACE), NonEmpty)
    IN  [i \in 1 .. Len(pieces) |-> Str(pieces[i])]

SUDO == <<"sudo", "-u", USER_DDEB, "--">>

\* action_run()
action_run ==
    /\ pc = "run"
    /\ LET cmd == SUDO \o RUN_COMMAND \o RunArgs(params) IN
       /\ ops' = <<cmd>>
       /\ \/ failed' = <<>> /\ End("done")
          \/ failed' = <<cmd>> /\ Abort
    /\ UNCHANGED <<config, status, handler, host, upstream, runs, action, params, git_args>>

PAUSE_TIMER == <<"systemd.service_pause", TIMER_UNIT>>
PAUSE_SERVICE == <<"systemd.service_pause", "ddeb-retriever.service">>
RESUME_TIMER == <<"systemd.service_resume", TIMER_UNIT>>
RESUME_SERVICE == <<"systemd.service_resume", "ddeb-retriever.service">>

\* a handler called directly, without an event
Call(h, first) ==
    /\ pc = "idle"
    /\ pc' = first
    /\ handler' = h
    /\ outcome' = "running"
    /\ ops' = <<>>
    /\ failed' = <<>>
    /\ action' = "none"
    /\ params' = NoParams
    /\ UNCHANGED git_args

call_action_pause ==
    /\ Call("action_pause", "pause")
    /\ UNCHANGED <<config, status, host, upstream, runs>>

call_action_resume ==
    /\ Call("action_resume", "resume")
    /\ UNCHANGED <<config, status, host, upstream, runs>>

\* faulty variant: a paused unit keeps the status it had
action_pause_no_status ==
    /\ pc = "pause"
    /\ \/ /\ ops' = <<PAUSE_TIMER, PAUSE_SERVICE>>
          /\ failed' = <<>>
          /\ timerUnit' = [enabled |-> FALSE, active |-> FALSE]
          /\ End("done")
       \/ /\ ops' = <<PAUSE_TIMER>>
          /\ failed' = <<PAUSE_TIMER>>
          /\ UNCHANGED timerUnit
          /\ Abort
       \/ /\ ops' = <<PAUSE_TIMER, PAUSE_SERVICE>>
          /\ failed' = <<PAUSE_SERVICE>>
          /\ timerUnit' = [enabled |-> FALSE, active |-> FALSE]
          /\ Abort
    /\ UNCHANGED <<config, status, handler, ports, pkgs, user, dir, timerFile, serviceFile,
                   a2conf, a2enabled, repo, upstream, runs, action, params, git_args>>

\* action_pause(): a SystemdError of either call leaves the handler
action_pause ==
    /\ pc = "pause"
    /\ \/ /\ ops' = <<PAUSE_TIMER, PAUSE_SERVICE>>
          /\ failed' = <<>>
          /\ timerUnit' = [enabled |-> FALSE, active |-> FALSE]
          /\ status' = MaintenanceStatus
          /\ End("done")
       \/ /\ ops' = <<PAUSE_TIMER>>
          /\ failed' = <<PAUSE_TIMER>>
          /\ UNCHANGED <<timerUnit, status>>
          /\ Abort
       \/ /\ ops' = <<PAUSE_TIMER, PAUSE_SERVICE>>
          /\ failed' = <<PAUSE_SERVICE>>
          /\ timerUnit' = [enabled |-> FALSE, active |-> FALSE]
          /\ UNCHANGED status
          /\ Abort
    /\ UNCHANGED <<config, handler, ports, pkgs, user, dir, timerFile, serviceFile,
                   a2conf, a2enabled, repo, upstream, runs, action, params, git_args>>

\* action_resume(): a SystemdError of either call leaves the handler
action_resume ==
    /\ pc = "resume"
    /\ \/ /\ ops' = <<RESUME_TIMER, RESUME_SERVICE>>
          /\ failed' = <<>>
          /\ timerUnit' = [enabled |-> TRUE, active |-> TRUE]
          /\ status' = ActiveStatus
          /\ End("done")
       \/ /\ ops' = <<RESUME_TIMER>>
          /\ failed' = <<RESUME_TIMER>>
          /\ UNCHANGED <<timerUnit, status>>
          /\ Abort
       \/ /\ ops' = <<RESUME_TIMER, RESUME_SERVICE>>
          /\ failed' = <<RESUME_SERVICE>>
          /\ timerUnit' = [enabled |-> TRUE, active |-> TRUE]
          /\ UNCHANGED status
          /\ Abort
    /\ UNCHANGED <<config, handler, ports, pkgs, user, dir, timerFile, serviceFile,
                   a2conf, a2enabled, repo, upstream, runs, action, params, git_args>>

\* the words of the argument tuples the helper _git is called with
GitWords == {"clone", "branch", "-C", "http://repo"}
RECURSIVE TuplesUpTo(_)
TuplesUpTo(n) ==
    IF n = 0 THEN {<<>>}
    ELSE LET S == TuplesUpTo(n - 1) IN
         S \cup { Append(t, w) : t \in {u \in S : Len(u) = n - 1}, w \in GitWords }

\* _git(*args) called directly: subprocess.check_output runs the command line
\* and raises CalledProcessError when it exits non-zero
git_call ==
    /\ pc = "idle"
    /\ handler = "none"
    /\ handler' = "_git"
    /\ ops' = <<_git(git_args)>>
    /\ \/ failed' = <<>> /\ outcome' = "done"
       \/ failed' = ops' /\ outcome' = "aborted"
    /\ UNCHANGED <<config, status, pc, host, upstream, runs, action, params, git_args>>

(***************************************************************************)
(* The environment: a remote publishes new commits on its branches.        *)
(***************************************************************************)
RECURSIVE Pushes(_, _)
Pushes(up, R) ==
    IF R = {} THEN 0
    ELSE LET r == CHOOSE x \in R : TRUE IN up[r] + Pushes(up, R \ {r})

Push ==
    /\ pc = "idle"
    /\ Pushes(upstream, Remotes) < MaxPush
    /\ \E r \in Remotes :
          /\ upstream' = [upstream EXCEPT ![r] = @ + 1]
    /\ UNCHANGED <<config, status, pc, handler, outcome, ops, failed, host, runs,
                   action, params, git_args>>

\* the events and steps that leave the desired state and the remotes alone
NextStatic ==
    \/ on_install
    \/ on_start
    \/ on_update_action
    \/ apply
    \/ do_deps
    \/ do_git
    \/ do_user
    \/ do_dirs
    \/ do_systemd
    \/ do_httpd
    \/ apply_set_ports
    \/ apply_set_status
    \/ action_update

Next ==
    \/ NextStatic
    \/ on_config_changed
    \/ Push

Spec == Init /\ [][Next]_vars

(***************************************************************************)
(* Other starting points.  The events dispatched are install, start and    *)
(* the update action; the desired state and the remotes stay as they are.  *)
(***************************************************************************)
Idle ==
    /\ pc = "idle"
    /\ handler = "none"
    /\ outcome = "none"
    /\ ops = <<>>
    /\ failed = <<>>
    /\ upstream = [r \in Remotes |-> 0]
    /\ runs = 0
    /\ action = "none"
    /\ params = NoParams
    /\ git_args = <<>>

Fresh ==
    /\ Idle
    /\ status = MaintenanceStatus
    /\ ports = {}
    /\ pkgs = FALSE
    /\ timerUnit = [enabled |-> FALSE, active |-> FALSE]
    /\ repo = NoRepo

\* the host as a completed apply with desired state cfg leaves it
DeployedHost(cfg) ==
    /\ ports = {HTTP_PORT}
    /\ pkgs = TRUE
    /\ user = TRUE
    /\ dir = [exists |-> TRUE, owner |-> USER_DDEB, group |-> USER_WWW, mode |-> MODE_0755]
    /\ timerFile = TimerText(cfg)
    /\ serviceFile = ServiceText
    /\ timerUnit = [enabled |-> TRUE, active |-> TRUE]
    /\ a2conf = ConfText
    /\ a2enabled = TRUE
    /\ repo = GitSync(NoRepo, cfg, upstream, 0).repo

Deployed(cfg) ==
    /\ Idle
    /\ status = ActiveStatus
    /\ DeployedHost(cfg)

\* any desired state, on a fresh host or on a host deployed earlier
InitGate ==
    /\ config \in AllConfigs
    /\ \/ /\ Fresh
          /\ user = FALSE
          /\ dir = NoDir
          /\ timerFile = NoFile
          /\ serviceFile = NoFile
          /\ a2conf = NoFile
          /\ a2enabled = FALSE
       \/ Deployed(DefaultConfig)

SpecGate == InitGate /\ [][NextStatic]_vars

\* a valid desired state on a host whose managed paths other agents have
\* left in any state
StaleText == <<"# stale">>

InitHost ==
    /\ Fresh
    /\ config \in ValidConfigs
    /\ user \in BOOLEAN
    /\ \/ /\ dir \in Dirs
          /\ timerFile = NoFile
          /\ serviceFile = NoFile
          /\ a2conf = NoFile
          /\ a2enabled = FALSE
       \/ /\ dir = NoDir
          /\ timerFile \in {NoFile, StaleText, TimerText(config)}
          /\ serviceFile \in {NoFile, StaleText, ServiceText}
          /\ a2conf \in {NoFile, StaleText, ConfText}
          /\ a2enabled \in BOOLEAN

SpecHost == InitHost /\ [][NextStatic]_vars

(***************************************************************************)
(* The actions, on a deployed host with any status published: every action *)
(* event is raised, and the pause and resume handlers are also called      *)
(* directly.                                                               *)
(***************************************************************************)
Statuses == {ActiveStatus, MaintenanceStatus} \cup {BlockedStatus({k}) : k \in Required}

InitActions ==
    /\ Idle
    /\ config = DefaultConfig
    /\ status \in Statuses
    /\ DeployedHost(config)

NextActions ==
    \/ NextStatic
    \/ on_run_action
    \/ on_pause_action
    \/ on_resume_action
    \/ call_action_pause
    \/ call_action_resume
    \/ action_run
    \/ action_pause
    \/ action_resume

SpecActions == InitActions /\ [][NextActions]_vars

(***************************************************************************)
(* Termination of apply.  A handler is straight-line code run by one       *)
(* thread: once dispatched, its next step is taken (every external command *)
(* returns, with success or with an error), which is weak fairness of the  *)
(* steps.  A step is enabled exactly when a handler is running (pc is not  *)
(* idle) and every step moves pc, so the fairness of Step is stated as     *)
(* the fairness of Advance, the move of pc of a running handler.  The runs *)
(* start from any status, on a fresh host, on a host deployed earlier and  *)
(* on a host whose managed paths are stale.                                *)
(***************************************************************************)
Step ==
    \/ apply
    \/ do_deps
    \/ do_git
    \/ do_user
    \/ do_dirs
    \/ do_systemd
    \/ do_httpd
    \/ apply_set_ports
    \/ apply_set_status
    \/ action_update

StaleHost ==
    /\ ports = {}
    /\ pkgs = TRUE
    /\ user = TRUE
    /\ dir = [exists |-> TRUE, owner |-> "root", group |-> "root", mode |-> 448]
    /\ timerFile = StaleText
    /\ serviceFile = StaleText
    /\ timerUnit = [enabled |-> FALSE, active |-> FALSE]
    /\ a2conf = StaleText
    /\ a2enabled = FALSE
    /\ repo = GitSync(NoRepo, DefaultConfig, upstream, 0).repo

InitLive ==
    /\ Idle
    /\ config \in Configs
    /\ status \in Statuses
    /\ \/ /\ ports = {}
          /\ pkgs = FALSE
          /\ user = FALSE
          /\ dir = NoDir
          /\ timerFile = NoFile
          /\ serviceFile = NoFile
          /\ timerUnit = [enabled |-> FALSE, active |-> FALSE]
          /\ a2conf = NoFile
          /\ a2enabled = FALSE
          /\ repo = NoRepo
       \/ DeployedHost(DefaultConfig)
       \/ StaleHost

Positions ==
    {"idle", "gate", "deps", "git", "user", "dirs", "systemd", "httpd", "ports",
     "status", "update", "run", "pause", "resume"}

Advance ==
    /\ pc # "idle"
    /\ pc' \in Positions
    /\ pc' # pc

SpecLive == InitLive /\ [][NextStatic]_vars /\ WF_pc(Advance)

(***************************************************************************)
(* The helper _git called directly with any argument tuple.                *)
(***************************************************************************)
InitGitCall ==
    /\ config = NoConfig
    /\ status = MaintenanceStatus
    /\ ports = {}
    /\ pc = "idle"
    /\ handler = "none"
    /\ outcome = "none"
    /\ ops = <<>>
    /\ failed = <<>>
    /\ pkgs = FALSE
    /\ user = FALSE
    /\ dir = NoDir
    /\ timerFile = NoFile
    /\ serviceFile = NoFile
    /\ timerUnit = [enabled |-> FALSE, active |-> FALSE]
    /\ a2conf = NoFile
    /\ a2enabled = FALSE
    /\ repo = NoRepo
    /\ upstream = [r \in Remotes |-> 0]
    /\ runs = 0
    /\ action = "none"
    /\ params = NoParams
    /\ git_args \in TuplesUpTo(MaxGitArgs)

SpecGitCall == InitGitCall /\ [][git_call]_vars

(***************************************************************************)
(* Properties.                                                             *)
(***************************************************************************)
Range(seq) == {seq[i] : i \in 1 .. Len(seq)}

IsPrefix(p, q) == Len(p) <= Len(q) /\ SubSeq(q, 1, Len(p)) = p

\* C1: when the desired state lacks at least one of the four required keys,
\* apply runs none of its steps: the host is left as it was, no operation is
\* issued, the run ends there and the status is Blocked.
C1_InvalidConfigBlocks ==
    [][ (pc = "gate" /\ {"gpg-key", "schedule", "git-ref", "git-repository"} \ DOMAIN config # {})
        => /\ host' = host
           /\ ops' = <<>>
           /\ pc' = "idle"
           /\ outcome' = "blocked"
           /\ status'.name = "Blocked" ]_vars

\* C1 witness: apply returned Blocked on a deployed host for a desired state
\* that lacks one key.
C1_Witness ==
    /\ handler = "apply"
    /\ outcome = "blocked"
    /\ status.name = "Blocked"
    /\ Cardinality(DOMAIN config) = 3
    /\ repo.exists

\* C2: a run of apply goes through its steps one after another in the order
\* packages, git, user, directory, unit files, apache, (port,) status: the
\* directory step starts only when the user step has completed, and the
\* status becomes Active only in the last step, after the apache step.
C2_StepsInOrder ==
    [][ (handler' = "apply" /\ pc' # pc)
        => /\ \/ pc' = "idle"
              \/ <<pc, pc'>> \in { <<"idle", "gate">>, <<"gate", "deps">>,
                                    <<"deps", "git">>, <<"git", "user">>,
                                    <<"user", "dirs">>, <<"dirs", "systemd">>,
                                    <<"systemd", "httpd">>, <<"httpd", "ports">>,
                                    <<"ports", "status">> }
           /\ (status' # status /\ status'.name = "Active") => pc = "status" ]_vars

\* C2 witness: a run of apply went through every step and published Active.
C2_Witness ==
    /\ handler = "apply"
    /\ outcome = "done"
    /\ status.name = "Active"
    /\ ports = {80}
    /\ a2enabled

\* the commands whose failure the claims C3 and C4 are about
IsFatalTool(cmd) == cmd[1] \in {"git", "adduser", "a2enconf"}
IsApt(cmd) == cmd[1] \in {"apt.update", "apt.add_package"}

\* what an aborted step of apply leaves: the run is over, the status is as it
\* was, and what the earlier steps applied is still there
AbortedCleanly ==
    /\ outcome' = "aborted"
    /\ pc' = "idle"
    /\ status' = status
    /\ ports' = ports
    /\ pkgs' = pkgs
    /\ repo.exists => repo'.exists
    /\ pc \in {"user", "httpd"} => repo' = repo
    /\ pc = "httpd" => /\ user' = user
                       /\ dir' = dir
                       /\ timerFile' = timerFile
                       /\ serviceFile' = serviceFile
                       /\ timerUnit' = timerUnit

\* C3 as stated: whenever a git command, adduser or a2enconf exits non-zero
\* in a step of apply, the run is aborted there, nothing applied earlier is
\* undone and the status is not set.
C3_AnyToolFailureAborts ==
    [][ (handler' = "apply" /\ pc # "idle"
         /\ \E i \in 1 .. Len(failed') : IsFatalTool(failed'[i]))
        => AbortedCleanly ]_vars

\* C3 amended: the same for every such command but the git describe of the
\* ref resolution, whose failure is caught.
C3_ToolFailureAborts ==
    [][ (handler' = "apply" /\ pc # "idle"
         /\ \E i \in 1 .. Len(failed') :
               /\ IsFatalTool(failed'[i])
               /\ failed'[i] # <<"git", "-C", "/opt/ddeb-retriever", "describe",
                                 "--all", "--exact-match", "--always", "HEAD">>)
        => AbortedCleanly ]_vars

\* C3 witness: a2enconf failed in the last step of an aborted run; the
\* checkout, the user and the directory of the earlier steps are in place and
\* the status is not Active.
C3_Witness ==
    /\ handler = "apply"
    /\ outcome = "aborted"
    /\ failed = << <<"a2enconf", "ddebs">> >>
    /\ repo.exists
    /\ user
    /\ dir.exists
    /\ status.name # "Active"

\* C4: an apt failure in the package step does not end the run: the run goes
\* on with the git step.
C4_AptFailureTolerated ==
    [][ (pc = "deps" /\ \E i \in 1 .. Len(failed') : IsApt(failed'[i]))
        => /\ pc' = "git"
           /\ outcome' = "running"
           /\ status' = status ]_vars

\* C4 witness: a run whose package step failed (no package was ever
\* installed) completed every step and published Active.
C4_Witness ==
    /\ handler = "apply"
    /\ outcome = "done"
    /\ status.name = "Active"
    /\ ~pkgs
    /\ repo.exists /\ user /\ dir.exists /\ a2enabled /\ timerUnit.active

\* C5 as stated: whenever the last operation was an apply and the status is
\* Active, that apply completed all of its steps.
C5_ActiveMeansCompleted ==
    (pc = "idle" /\ handler = "apply" /\ status.name = "Active") => outcome = "done"

\* C6 as stated: when the checkout step has completed, the origin URL of the
\* working tree is the desired remote and the ref the ref-resolution helper
\* computes for it is the desired ref.
C6_CheckoutConverged ==
    (handler = "apply" /\ pc = "user")
        => /\ repo.url = config["git-repository"]
           /\ _git_current_ref(RunState(repo), 0).ref = config["git-ref"]

IsSystemdCall(c) ==
    c[1] \in {"systemd.daemon_reload", "systemd.service_enable", "systemd.service_start"}

\* C7 as stated: the unit-file step reloads the init system, enables the timer
\* and starts the timer, in that order and once, when the timer file or the
\* service file was rewritten, and the sequence hangs on that combined flag:
\* with neither file rewritten it is not issued.
C7_RestartDrivenByChange ==
    [][ (pc = "systemd" /\ pc' # pc)
        => LET changed == timerFile' # timerFile \/ serviceFile' # serviceFile
               calls == SelectSeq(ops', IsSystemdCall)
           IN  calls = IF changed
                       THEN << <<"systemd.daemon_reload">>,
                               <<"systemd.service_enable", "ddeb-retriever.timer">>,
                               <<"systemd.service_start", "ddeb-retriever.timer">> >>
                       ELSE <<>> ]_vars

\* C8: in the apache step a2enconf is run iff the enabled marker is absent;
\* a step that completes reloads apache iff it rewrote the configuration or
\* ran a2enconf (so not when the content is current and the marker exists);
\* a step left by a failing a2enconf reloads nothing.
C8_HttpdReload ==
    [][ (pc = "httpd" /\ pc' # pc)
        => LET ran == <<"a2enconf", "ddebs">> \in Range(ops')
               reloaded == <<"systemd.service_reload", "apache2.service">> \in Range(ops')
               wrote == <<"write", "/etc/apache2/conf-available/ddebs.conf">> \in Range(ops')
           IN  /\ wrote <=> a2conf' # a2conf
               /\ ran <=> ~a2enabled
               /\ pc' = "ports" => (reloaded <=> (wrote \/ ran))
               /\ pc' = "idle" => (ran /\ ~reloaded)
               /\ Len(ops') = Cardinality(Range(ops')) ]_vars

\* C8 witness: the content was current and the marker absent: the step ran
\* a2enconf and reloaded apache without writing the file.
C8_Witness ==
    /\ pc = "ports"
    /\ ops = << <<"a2enconf", "ddebs">>, <<"systemd.service_reload", "apache2.service">> >>
    /\ a2enabled

\* C9: the directory step leaves the directory present, owned by ddeb, of
\* group www-data and with permission bits 0755, whatever it found; run again
\* on what it left, it issues no mkdir, chown or chmod and leaves the same
\* directory.
C9_DirsIdempotent ==
    [][ (pc = "dirs" /\ pc' # pc)
        => /\ dir'.exists
           /\ dir'.owner = "ddeb"
           /\ dir'.group = "www-data"
           /\ dir'.mode % 512 = 493
           /\ \A mkmode \in MkdirModes :
                 EnsureDirectory(dir', mkmode) = [dir |-> dir', log |-> <<>>]
           /\ \A mkmode \in MkdirModes :
                 EnsureDirectory(dir, mkmode).dir = dir => (dir' = dir /\ ops' = <<>>) ]_vars

\* C9 witness: the directory step of a second run has just found the
\* directory as the first run left it and issued nothing.
C9_Witness ==
    /\ runs = 2
    /\ handler = "apply"
    /\ pc = "systemd"
    /\ ops = <<>>
    /\ dir.exists /\ dir.owner = "ddeb" /\ dir.group = "www-data"
    /\ dir.mode = 1005

\* C10: the update action issues fetch origin and then checkout
\* origin/<desired ref> and nothing else (a failing command ends it there):
\* no clone, no remote set-url, no other step; the status and the host other
\* than the checkout's refs are left as they were.
C10_UpdateOnlyFetchesAndChecksOut ==
    [][ (pc = "update" /\ pc' # pc)
        => /\ IF "git-ref" \in DOMAIN config
              THEN IsPrefix(ops', << <<"git", "-C", "/opt/ddeb-retriever", "fetch", "origin">>,
                                     <<"git", "-C", "/opt/ddeb-retriever", "checkout",
                                       "origin/" \o config["git-ref"]>> >>)
              ELSE ops' = <<>>
           /\ outcome' = "done" => Len(ops') = 2
           /\ pc' = "idle"
           /\ status' = status
           /\ <<ports, pkgs, user, dir, timerFile, serviceFile, timerUnit, a2conf, a2enabled>>'
                = <<ports, pkgs, user, dir, timerFile, serviceFile, timerUnit, a2conf, a2enabled>>
           /\ repo'.exists = repo.exists
           /\ repo'.url = repo.url
           /\ repo'.lmain = repo.lmain ]_vars

\* C10 witness: a completed update action fetched the commits pushed since
\* the clone and checked the desired ref out at them.
C10_Witness ==
    /\ handler = "action_update"
    /\ outcome = "done"
    /\ Len(ops) = 2
    /\ repo.track = 1 /\ repo.lmain = 0
    /\ repo.head = [att |-> FALSE, b |-> config["git-ref"], g |-> 1]

\* C11 as stated: whenever one of the action events update, run, pause and
\* resume has been raised, the handler of that name is the one run for it; a
\* raised pause action that was not aborted leaves the status Maintenance and
\* a raised resume action that was not aborted leaves it Active.
C11_ActionEventsRunHandlers ==
    (action \in {"update", "run", "pause", "resume"})
        => /\ handler = "action_" \o action
           /\ (action = "pause" /\ pc = "idle" /\ outcome # "aborted")
                 => status.name = "Maintenance"
           /\ (action = "resume" /\ pc = "idle" /\ outcome # "aborted")
                 => status.name = "Active"

\* C12: whatever the status was, a pause handler that completes leaves the
\* status Maintenance, it is still Maintenance when the resume handler is
\* called next, and a resume handler that completes leaves it exactly Active;
\* an apply run after that with the valid desired state ends Active with
\* every step done, unless a command failed in its last step.
C12_PauseThenResume ==
    [][ /\ (pc = "pause" /\ outcome' = "done")
              => status' = [name |-> "Maintenance", missing |-> {}]
        /\ (handler = "action_pause" /\ outcome = "done" /\ pc' = "resume")
              => /\ status = [name |-> "Maintenance", missing |-> {}]
                 /\ status' = status
        /\ (pc = "resume" /\ outcome' = "done")
              => status' = [name |-> "Active", missing |-> {}]
        /\ (handler = "apply" /\ pc # "idle" /\ pc' = "idle"
            /\ DOMAIN config = {"gpg-key", "schedule", "git-ref", "git-repository"})
              => \/ outcome' = "done" /\ pc = "status"
                                      /\ status' = [name |-> "Active", missing |-> {}]
                 \/ outcome' = "aborted" /\ failed' # <<>> /\ status' = status ]_vars

\* C12 witness: the resume handler has been called on a unit that the pause
\* handler stopped and left in Maintenance.
C12_Witness ==
    /\ handler = "action_resume"
    /\ pc = "resume"
    /\ status.name = "Maintenance"
    /\ ~timerUnit.active
    /\ ~timerUnit.enabled

RECURSIVE Fields(_)
\* the maximal runs of characters other than space, tab and newline, in order
Fields(s) ==
    LET ws == {" ", "\t", "\n"}
        IsWs(i) == s[i] \in ws
    IN  IF s = <<>> THEN <<>>
        ELSE IF IsWs(1) THEN Fields(Tail(s))
        ELSE LET n == IF \E i \in 1 .. Len(s) : IsWs(i)
                      THEN (CHOOSE i \in 1 .. Len(s) :
                               IsWs(i) /\ \A j \in 1 .. i - 1 : ~IsWs(j)) - 1
                      ELSE Len(s)
             IN  <<Str(SubSeq(s, 1, n))>> \o Fields(SubSeq(s, n + 1, Len(s)))

\* C13 as stated: the command of the run action is the fixed command followed
\* by the maximal runs of non-whitespace characters of the args parameter, for
\* space, tab and newline alike; without an args parameter nothing follows.
C13_ArgsSplitOnWhitespace ==
    (handler = "action_run" /\ pc = "idle")
        => ops = << <<"sudo", "-u", "ddeb", "--", "/opt/ddeb-retriever/ddeb-retriever",
                      "-r", "/srv/ddebs">>
                    \o (IF "args" \in DOMAIN params THEN Fields(params["args"]) ELSE <<>>) >>

\* C14: the command line the helper _git runs is, for an argument tuple whose
\* first argument is clone, git followed by the arguments, with no -C flag put
\* in front; for every other tuple, the empty one included, it is
\* git -C /opt/ddeb-retriever followed by the arguments.
C14_GitCommandLine ==
    (handler = "_git")
        => LET cmd == ops[1]
               n == Len(git_args)
           IN  /\ Len(ops) = 1
               /\ cmd[1] = "git"
               /\ IF n > 0 /\ git_args[1] = "clone"
                  THEN /\ Len(cmd) = n + 1
                       /\ \A i \in 1 .. n : cmd[i + 1] = git_args[i]
                  ELSE /\ Len(cmd) = n + 3
                       /\ cmd[2] = "-C"
                       /\ cmd[3] = "/opt/ddeb-retriever"
                       /\ \A i \in 1 .. n : cmd[i + 3] = git_args[i]

\* C14 witness: the helper was called with clone, a URL and a third argument
\* and ran git clone with them.
C14_Witness ==
    /\ handler = "_git"
    /\ git_args = <<"clone", "http://repo", "branch">>
    /\ ops = << <<"git", "clone", "http://repo", "branch">> >>

\* C15: when HEAD is detached at a commit that no ref points at (neither the
\* local branch, nor origin/HEAD, nor the remote-tracking branch), the ref
\* resolution does not fail: git describe is tried, its failure is caught,
\* and the ref returned is the full commit identifier git rev-parse HEAD
\* prints, stripped.  In the checkout step, a git describe that failed is
\* followed by git rev-parse HEAD and, unless a later command fails, by the
\* checkout of the desired ref and the next step.
C15_RefFallback ==
    /\ [] ( (/\ repo.exists
             /\ ~repo.head.att
             /\ <<repo.head.b, repo.head.g>>
                   \notin { <<"main", repo.lmain>>, <<"main", repo.track>>,
                            <<repo.head.b, repo.track>> })
            => LET cur == _git_current_ref(RunState(repo), 0) IN
               /\ cur.ref = "sha-" \o repo.head.b \o "-" \o ToString(repo.head.g)
               /\ cur.s.err = <<>>
               /\ cur.s.repo = repo
               /\ cur.s.log = << <<"git", "-C", "/opt/ddeb-retriever", "describe", "--all",
                                   "--exact-match", "--always", "HEAD">>,
                                 <<"git", "-C", "/opt/ddeb-retriever", "rev-parse", "HEAD">> >>
               /\ cur.s.caught = <<cur.s.log[1]>> )
    /\ [][ (pc = "git" /\ pc' # pc /\ failed' # <<>>
            /\ failed'[1] = <<"git", "-C", "/opt/ddeb-retriever", "describe", "--all",
                              "--exact-match", "--always", "HEAD">>)
           => \E i \in 1 .. Len(ops') - 1 :
                 /\ ops'[i] = failed'[1]
                 /\ ops'[i + 1] = <<"git", "-C", "/opt/ddeb-retriever", "rev-parse", "HEAD">>
                 /\ Len(failed') = 1
                       => /\ pc' = "user"
                          /\ Len(ops') = i + 2
                          /\ ops'[i + 2] = <<"git", "-C", "/opt/ddeb-retriever", "checkout",
                                             "origin/" \o config["git-ref"]>> ]_vars

\* C15 witness: a checkout step found HEAD at a commit of dev that the fetch
\* from the new remote left without a ref, resolved it through git rev-parse
\* and went on to the checkout.
C15_Witness ==
    /\ handler = "apply"
    /\ pc = "user"
    /\ failed = << <<"git", "-C", "/opt/ddeb-retriever", "describe", "--all",
                     "--exact-match", "--always", "HEAD">> >>
    /\ Len(ops) = 6
    /\ ops[5] = <<"git", "-C", "/opt/ddeb-retriever", "rev-parse", "HEAD">>
    /\ repo.head = [att |-> FALSE, b |-> "dev", g |-> 1]

\* C16: in the checkout step git remote set-url is issued iff the install
\* directory exists, git remote get-url succeeded and the origin URL it
\* printed differs from the desired remote; it is then the command right
\* after get-url, git fetch origin is the command right after it (unless
\* set-url failed and ended the step), and the ref resolution and the checkout
\* come after the fetch.  With equal URLs neither set-url nor fetch is issued.
\* When the install directory is absent, git clone is the first command.
C16_FetchFollowsSetUrl ==
    [][ (pc = "git" /\ pc' # pc)
        => LET remote   == config["git-repository"]
               G(x)     == <<"git", "-C", "/opt/ddeb-retriever">> \o x
               GETURL   == G(<<"remote", "get-url", "origin">>)
               SETURL   == G(<<"remote", "set-url", "origin", remote>>)
               FETCH    == G(<<"fetch", "origin">>)
               Later(c) == \/ (Len(c) > 3 /\ c[4] \in {"describe", "rev-parse", "checkout"})
                           \/ c[2] = "clone"
               differs  == repo.exists /\ repo.url # remote
               At(c)    == {i \in 1 .. Len(ops') : ops'[i] = c}
           IN  /\ ops' # <<>>
               /\ ~repo.exists => /\ ops'[1] = <<"git", "clone", remote, "/opt/ddeb-retriever">>
                                  /\ At(ops'[1]) = {1}
               /\ repo.exists => ops'[1] = GETURL
               /\ (differs /\ failed' # <<GETURL>>)
                     => /\ At(SETURL) = {2}
                        /\ failed' # <<SETURL>> => At(FETCH) = {3}
                        /\ failed' = <<SETURL>> => (Len(ops') = 2 /\ pc' = "idle")
                        /\ \A i \in 1 .. Len(ops') : Later(ops'[i]) => i > 3
               /\ ~(differs /\ failed' # <<GETURL>>)
                     => (At(SETURL) = {} /\ At(FETCH) = {})
               /\ \A i \in 1 .. Len(ops') :
                     (Len(ops'[i]) > 4 /\ ops'[i][5] = "set-url") => ops'[i] = SETURL ]_vars

\* C16 witness: a checkout step found the origin at another URL: it issued
\* get-url, set-url, fetch origin, then resolved the ref and checked out.
C16_Witness ==
    /\ handler = "apply"
    /\ pc = "user"
    /\ Len(ops) >= 5
    /\ ops[2] = <<"git", "-C", "/opt/ddeb-retriever", "remote", "set-url", "origin",
                  config["git-repository"]>>
    /\ ops[3] = <<"git", "-C", "/opt/ddeb-retriever", "fetch", "origin">>
    /\ ops[4][4] = "describe"
    /\ ops[Len(ops)][4] = "checkout"
    /\ repo.url = config["git-repository"]

\* C17: in the directory step mkdir is issued iff the directory is missing;
\* chown to ddeb:www-data is issued iff the directory, as it is after that
\* (a directory just made belongs to root), has another owner or another
\* group; chmod 0755 is issued iff the low nine bits of its mode are not 0755
\* (a directory just made has the mode the umask gives it, and chmod is issued
\* or not accordingly).  Each is issued at most once, in that order, whatever
\* the other two checks did, and changes nothing but what it is for.
C17_DirChecksIndependent ==
    [][ (pc = "dirs" /\ pc' # pc)
        => LET MKDIR == <<"mkdir", "/srv/ddebs">>
               CHOWN == <<"chown", "/srv/ddebs", "ddeb", "www-data">>
               CHMOD == <<"chmod", "/srv/ddebs", "0755">>
               has(c) == \E i \in 1 .. Len(ops') : ops'[i] = c
           IN  /\ ops' = SelectSeq(<<MKDIR, CHOWN, CHMOD>>, has)
               /\ has(MKDIR) <=> ~dir.exists
               /\ has(CHOWN) <=> (~dir.exists \/ dir.owner # "ddeb" \/ dir.group # "www-data")
               /\ dir.exists => (has(CHMOD) <=> (dir.mode % 512 # 493))
               /\ has(MKDIR) => dir'.exists
               /\ has(CHOWN) => (dir'.owner = "ddeb" /\ dir'.group = "www-data")
               /\ ~has(CHOWN) => (dir'.owner = dir.owner /\ dir'.group = dir.group)
               /\ has(CHMOD) => dir'.mode = 493
               /\ (dir.exists /\ ~has(CHMOD)) => dir'.mode = dir.mode ]_vars

\* C17 witness: the directory existed with the right owner and group and mode
\* 0700: the step issued chmod alone.
C17_Witness ==
    /\ handler = "apply"
    /\ pc = "systemd"
    /\ ops = << <<"chmod", "/srv/ddebs", "0755">> >>
    /\ dir = [exists |-> TRUE, owner |-> "ddeb", group |-> "www-data", mode |-> 493]

\* C18 as stated: when apply runs on a host that an earlier run converged to
\* the same valid desired state (the checkout at the desired remote and ref,
\* the user, the directory, the unit files, the timer and the apache
\* configuration all in place), the git, user, directory, unit-file and apache
\* steps, when no command of theirs fails, issue no mutating operation: only
\* the reads git remote get-url, git describe and git rev-parse.
C18_SecondRunIssuesNothing ==
    [][ (/\ handler = "apply"
         /\ pc \in {"git", "user", "dirs", "systemd", "httpd"}
         /\ pc' # pc
         /\ failed' = <<>>
         /\ repo.exists
         /\ repo.url = config["git-repository"]
         /\ \/ repo.head = [att |-> TRUE, b |-> "main", g |-> repo.lmain]
                  /\ config["git-ref"] = "main"
            \/ repo.head = [att |-> FALSE, b |-> config["git-ref"], g |-> repo.track]
         /\ user
         /\ dir = [exists |-> TRUE, owner |-> "ddeb", group |-> "www-data", mode |-> 493]
         /\ timerFile = TimerText(config)
         /\ serviceFile = ServiceText
         /\ timerUnit = [enabled |-> TRUE, active |-> TRUE]
         /\ a2conf = ConfText
         /\ a2enabled)
        => \A i \in 1 .. Len(ops') :
              /\ ops'[i][1] = "git"
              /\ ops'[i][4] \in {"remote", "describe", "rev-parse"}
              /\ ops'[i][4] = "remote" => ops'[i][5] = "get-url" ]_vars

\* C19: a run of apply with a valid desired state comes to an end, whatever
\* the host and the status it started from: with every step done, port 80
\* open and the status Active, or aborted in a step in which a command
\* failed.  The status turns Active only in the last step, when port 80 is
\* already open; a run that the gate ends with Blocked opens no port and
\* does not publish Active.
C19_ApplyEndsActive ==
    /\ (pc = "gate" /\ DOMAIN config = {"gpg-key", "schedule", "git-ref", "git-repository"})
          ~> (/\ pc = "idle"
              /\ handler = "apply"
              /\ \/ outcome = "done" /\ status.name = "Active" /\ 80 \in ports
                 \/ outcome = "aborted" /\ failed # <<>>)
    /\ [][ (handler = "apply" /\ pc # "idle" /\ pc' = "idle" /\ outcome' = "done")
           => /\ pc = "status"
              /\ 80 \in ports
              /\ ports' = ports
              /\ status'.name = "Active" ]_vars
    /\ [][ (handler = "apply" /\ status' # status /\ status'.name = "Active")
           => (pc = "status" /\ 80 \in ports) ]_vars
    /\ [][ (handler = "apply" /\ 80 \in ports' /\ 80 \notin ports)
           => (pc = "ports" /\ status' = status) ]_vars
    /\ [][ (pc = "gate" /\ outcome' = "blocked")
           => (ports' = ports /\ status'.name = "Blocked" /\ pc' = "idle") ]_vars

\* C19 witness: a run of apply that started on the stale host, where no port
\* was open, has ended with every step done, port 80 open and the status
\* Active.
C19_Witness ==
    /\ handler = "apply"
    /\ pc = "idle"
    /\ outcome = "done"
    /\ runs = 1
    /\ ports = {80}
    /\ status.name = "Active"
    /\ repo.lmain = 0 /\ repo.head.att
    /\ config["git-ref"] = "main"
    /\ config["git-repository"] = "https://b/ddeb.git"

====
